---- MODULE Spec2Model ----
(***************************************************************************)
(* Model of aws-eip-binding: Binder.Bind (eip/binder.go) run on one host   *)
(* against the address directory (the EC2 API) and the host's metadata     *)
(* service (IMDS), while another process may change the directory.         *)
(*                                                                         *)
(* Go values are modelled as follows.                                      *)
(*   *string / *T pointer : a sequence, <<>> for nil and <<v>> for &v      *)
(*   association id       : a positive integer; the Go empty string "" of  *)
(*                          BindResult.AssociationID is 0                  *)
(*   error                : <<>> for nil, <<"step">> for a non-nil error   *)
(*                          (the step names the fmt.Errorf that built it)  *)
(*   string of config.go  : the sequence of its characters, so that        *)
(*                          replacing and parsing work on the characters   *)
(* Every remote call and the handling of its response up to the next       *)
(* remote call is one atomic step.                                         *)
(***************************************************************************)
EXTENDS Integers, Sequences, FiniteSets, TLC

\* Number of Bind invocations started, one after the other.
MaxBinds == 2

\* Number of changes another process makes to the directory.
MaxOther == 1

IPs   == {"ip1", "ip2"}
ENIs  == {"eni1", "eni2"}

\* The network interface of the host that runs Bind.
HostENI == "eni1"

\* The values the host's metadata service may serve at meta-data/instance-id.
InstanceIDs == {"i-abc123", "i-myinst"}

\* The allocation id the directory gave each address.
AllocIdOf(ip) == "eipalloc-" \o ip

VARIABLES
    dir,                \* the directory: per public IP, its allocation and association
    nextAssoc,          \* the next association id the directory hands out
    binds,              \* number of Bind invocations started so far
    others,             \* number of changes made by the other process so far
    pc,                 \* the remote call Bind issues next, or how it ended
    targetIP,           \* Bind's targetIP argument
    address,            \* descOut.Addresses[0]
    mdToken,            \* the IMDS token of this invocation
    instancePublicIP,   \* meta-data/public-ipv4
    instanceID,         \* meta-data/instance-id
    networkInterfaceID, \* eniOut.NetworkInterfaces[0].NetworkInterfaceId
    result,             \* the *BindResult returned (<<>> is nil)
    err,                \* the error returned (<<>> is nil)
    calls,              \* the remote calls of this invocation, in order
    before,             \* the directory when this invocation began
    mutated,            \* the other process changed the directory since then
    stale,              \* ... since this invocation's DescribeAddresses returned
    osArgs,             \* os.Args: the program name and its arguments
    environ,            \* the environment os.Getenv reads
    cfg,                \* the *Config ParseConfigFromOS returned (<<>> is nil)
    cfgErr,             \* the error ParseConfigFromOS returned (<<>> is nil)
    awsCfg,             \* the aws.Config LoadDefaultConfig returned (<<>> is none)
    awsErr,             \* the error LoadDefaultConfig returned (<<>> is nil)
    mainPc,             \* where main is, or how the process ended
    exitCode,           \* the exit status of the process (<<>> while it runs)
    binder,             \* the fields of the Binder
    ctxDone,            \* the ctx passed to this invocation has been cancelled
    recovering          \* this invocation follows one that left its target detached

\* The variables of the command line (eip/config.go) and of main.
cli == <<osArgs, environ, cfg, cfgErr, awsCfg, awsErr, mainPc, exitCode>>

\* The Binder and the context of the invocation.
scope == <<binder, ctxDone, recovering>>

vars == <<dir, nextAssoc, binds, others, pc, targetIP, address, mdToken,
          instancePublicIP, instanceID, networkInterfaceID, result, err, calls,
          before, mutated, stale, cli, scope>>

locals == <<targetIP, address, mdToken, instancePublicIP, instanceID,
            networkInterfaceID>>

----------------------------------------------------------------------------
\* The directory (EC2 API), as an in-memory double.

Unallocated == [allocated |-> FALSE, AllocationId |-> <<>>, AssociationId |-> <<>>,
                NetworkInterfaceId |-> <<>>]

\* types.Address as DescribeAddresses returns it.
AddressOf(d, ip) == [PublicIp |-> <<ip>>,
                     AllocationId |-> d[ip].AllocationId,
                     AssociationId |-> d[ip].AssociationId,
                     NetworkInterfaceId |-> d[ip].NetworkInterfaceId]

\* The zero value of types.Address (var address types.Address).
ZeroAddress == [PublicIp |-> <<>>, AllocationId |-> <<>>, AssociationId |-> <<>>,
                NetworkInterfaceId |-> <<>>]

\* DescribeAddresses(PublicIps: [ip]): the allocated addresses with that public IP.
DescribeAddresses(d, ip) ==
    IF d[ip].allocated THEN <<AddressOf(d, ip)>> ELSE <<>>

\* DisassociateAddress(AssociationId): the addresses holding that association.
HoldersOf(d, assoc) ==
    {ip \in IPs : d[ip].allocated /\ assoc # <<>> /\ d[ip].AssociationId = assoc}

DisassociateAddress(d, assoc) ==
    [ip \in IPs |-> IF ip \in HoldersOf(d, assoc)
                    THEN [d[ip] EXCEPT !.AssociationId = <<>>,
                                       !.NetworkInterfaceId = <<>>]
                    ELSE d[ip]]

\* DescribeNetworkInterfaces(filter addresses.association.public-ip = ip).
DescribeNetworkInterfaces(d, ip) ==
    IF d[ip].allocated /\ d[ip].NetworkInterfaceId # <<>>
    THEN <<[NetworkInterfaceId |-> d[ip].NetworkInterfaceId]>>
    ELSE <<>>

\* AssociateAddress(AllocationId, NetworkInterfaceId): the address of that
\* allocation is (re)associated with the interface under a new association id.
AllocatedAs(d, alloc) ==
    {ip \in IPs : d[ip].allocated /\ alloc # <<>> /\ d[ip].AllocationId = alloc}

AssociateAddress(d, alloc, eni, assoc) ==
    [ip \in IPs |-> IF ip \in AllocatedAs(d, alloc)
                    THEN [d[ip] EXCEPT !.AssociationId = <<assoc>>,
                                       !.NetworkInterfaceId = eni]
                    ELSE d[ip]]

----------------------------------------------------------------------------
\* Initial directories: every address is unallocated, allocated and free, or
\* allocated and associated with one interface; an allocated address may
\* lack its AllocationId. Association ids are unique.

InitAssocOf(ip) == IF ip = "ip1" THEN 1 ELSE 2

InitEntries(ip) ==
    {Unallocated}
    \cup {[allocated |-> TRUE, AllocationId |-> a, AssociationId |-> <<>>,
           NetworkInterfaceId |-> <<>>] : a \in {<<AllocIdOf(ip)>>, <<>>}}
    \cup {[allocated |-> TRUE, AllocationId |-> a,
           AssociationId |-> <<InitAssocOf(ip)>>,
           NetworkInterfaceId |-> <<e>>] : a \in {<<AllocIdOf(ip)>>, <<>>}, e \in ENIs}

Call(op, arg, ok, ret) == [op |-> op, arg |-> arg, ok |-> ok, ret |-> ret]

\* func NewBinder(ec2Client EC2API, imds MetadataClient, logger *log.Logger) *Binder
NewBinder == [EC2 |-> "ec2Client", IMDS |-> "imds", Logger |-> "logger"]

BinderInit ==
    /\ dir \in {d \in [IPs -> UNION {InitEntries(ip) : ip \in IPs}] :
                  \A ip \in IPs : d[ip] \in InitEntries(ip)}
    /\ nextAssoc = Cardinality(IPs) + 1
    /\ binds = 0
    /\ others = 0
    /\ pc = "idle"
    /\ targetIP = ""
    /\ address = ZeroAddress
    /\ mdToken = ""
    /\ instancePublicIP = ""
    /\ instanceID = ""
    /\ networkInterfaceID = <<>>
    /\ result = <<>>
    /\ err = <<>>
    /\ calls = <<>>
    /\ before = dir
    /\ mutated = FALSE
    /\ stale = FALSE
    /\ binder = NewBinder
    /\ ctxDone = FALSE
    /\ recovering = FALSE

\* The state after construction: no invocation yet, nothing parsed; Bind is
\* called by a program that uses the package as a library.
Init ==
    /\ BinderInit
    /\ osArgs = <<>>
    /\ environ = <<>>
    /\ cfg = <<>>
    /\ cfgErr = <<>>
    /\ awsCfg = <<>>
    /\ awsErr = <<>>
    /\ mainPc = "library"
    /\ exitCode = <<>>

----------------------------------------------------------------------------
\* Another process using the same directory.

\* It disassociates an address that is associated.
OtherDisassociate(ip) ==
    /\ others < MaxOther
    /\ dir[ip].allocated /\ dir[ip].AssociationId # <<>>
    /\ dir' = DisassociateAddress(dir, dir[ip].AssociationId)
    /\ others' = others + 1
    /\ mutated' = TRUE
    /\ stale' = TRUE
    /\ UNCHANGED <<nextAssoc, binds, pc, locals, result, err, calls, before>>
    /\ UNCHANGED cli
    /\ UNCHANGED scope

\* It associates an address with an interface.
OtherAssociate(ip, eni) ==
    /\ others < MaxOther
    /\ dir[ip].allocated /\ dir[ip].AllocationId # <<>>
    /\ dir' = AssociateAddress(dir, dir[ip].AllocationId, <<eni>>, nextAssoc)
    /\ nextAssoc' = nextAssoc + 1
    /\ others' = others + 1
    /\ mutated' = TRUE
    /\ stale' = TRUE
    /\ UNCHANGED <<binds, pc, locals, result, err, calls, before>>
    /\ UNCHANGED cli
    /\ UNCHANGED scope

----------------------------------------------------------------------------
\* Binder.Bind, one step per remote call.

Running == pc \notin {"idle", "returned", "panic"}

\* Faulty variant: an error is returned together with a partial result.
ReturnPartial(step) ==
    /\ pc' = "returned"
    /\ result' = <<[AlreadyAssociated |-> FALSE, AssociationID |-> 0,
                    InstanceID |-> instanceID]>>
    /\ err' = <<step>>

\* return nil, fmt.Errorf(step...)
ReturnError(step) ==
    /\ pc' = "returned"
    /\ result' = <<>>
    /\ err' = <<step>>

\* return &BindResult{...}, nil
ReturnResult(r) ==
    /\ pc' = "returned"
    /\ result' = <<r>>
    /\ err' = <<>>

Goto(next) ==
    /\ pc' = next
    /\ UNCHANGED <<result, err>>

Log(c) == calls' = Append(calls, c)

\* The invocation before this one failed after a successful
\* DisassociateAddress, it was for the same target t, and t is unattached.
LeftDetached(t) ==
    /\ pc = "returned" /\ err # <<>>
    /\ targetIP = t
    /\ \E i \in 1..Len(calls) : calls[i].op = "DisassociateAddress" /\ calls[i].ok
    /\ dir[t].allocated
    /\ dir[t].AssociationId = <<>> /\ dir[t].NetworkInterfaceId = <<>>

\* func (b *Binder) Bind(ctx context.Context, targetIP string): the call
\* itself, with a ctx that is not cancelled yet.
BindCall(t) ==
    /\ ~Running
    /\ binds < MaxBinds
    /\ binds' = binds + 1
    /\ pc' = "DescribeAddresses"
    /\ targetIP' = t
    /\ address' = ZeroAddress
    /\ mdToken' = ""
    /\ instancePublicIP' = ""
    /\ instanceID' = ""
    /\ networkInterfaceID' = <<>>
    /\ result' = <<>>
    /\ err' = <<>>
    /\ calls' = <<>>
    /\ before' = dir
    /\ mutated' = FALSE
    /\ stale' = FALSE
    /\ ctxDone' = FALSE
    /\ recovering' = LeftDetached(t)
    /\ UNCHANGED <<dir, nextAssoc, others, binder>>

\* A caller invokes b.Bind(ctx, targetIP).
Bind(t) ==
    /\ BindCall(t)
    /\ UNCHANGED cli

\* Faulty variant: the emptiness check is missing, and Addresses[0] of an
\* empty list is an index-out-of-range panic.
AfterLookupUnchecked(out) == IF Len(out) = 0 THEN "panic" ELSE "GetToken"

\* if len(descOut.Addresses) == 0 { return nil, ... }
AfterLookup(out) == IF Len(out) = 0 THEN "returned" ELSE "GetToken"

\* Faulty variant: the last address of the list is used.
LastAddress(out) == out[Len(out)]

\* address := descOut.Addresses[0]
FirstAddress(out) == out[1]

\* Faulty variant: the directory calls get context.Background().
BackgroundDone == FALSE

\* The ctx handed to the directory calls is the ctx Bind was given; a call
\* with a cancelled ctx returns an error and does nothing.
CtxDone == ctxDone

\* 1. Describe the EIP allocation; `replies` are the lists the directory may
\* answer with.
LookupStep(replies) ==
    /\ pc = "DescribeAddresses"
    /\ \E ok \in BOOLEAN, out \in replies :
        /\ ok => ~CtxDone
        /\ Log(Call("DescribeAddresses", <<targetIP>>, ok, IF ok THEN out ELSE <<>>))
        /\ IF ~ok
           THEN ReturnError("describe addresses") /\ UNCHANGED address
           ELSE IF AfterLookup(out) = "returned"
           THEN ReturnError("no addresses found") /\ UNCHANGED address
           ELSE IF AfterLookup(out) = "panic"
           THEN Goto("panic") /\ UNCHANGED address
           ELSE /\ address' = FirstAddress(out)
                /\ Goto(AfterLookup(out))
    /\ stale' = FALSE
    /\ UNCHANGED <<dir, nextAssoc, binds, others, targetIP, mdToken,
                   instancePublicIP, instanceID, networkInterfaceID, before, mutated>>
    /\ UNCHANGED cli
    /\ UNCHANGED scope

\* 1. The directory answers with the addresses that have the public IP asked for.
DescribeAddressesStep == LookupStep({DescribeAddresses(dir, targetIP)})

----------------------------------------------------------------------------
\* IMDSClient: the metadata service over HTTP.

\* http.StatusOK
StatusOK == 200

\* The status codes the metadata service answers with: success, unauthorized
\* (bad or expired token) and not found.
Statuses == {StatusOK, 401, 404}

\* The session token the service hands out to an invocation.
TokenOf(n) == "token-" \o ToString(n)

\* What can happen to one request: http.NewRequest refuses the URL (built =
\* FALSE, nothing is sent); HTTPClient.Do returns an error (transport =
\* FALSE); or a response arrives with a status and a body, and reading the
\* body of a success response may fail half way (the body of any other
\* response is never read).
Exchanges(method, path, body) ==
    LET none == [method |-> method, path |-> path, built |-> FALSE,
                 transport |-> FALSE, status |-> 0, body |-> "", readable |-> FALSE]
    IN  {none}
        \cup {[none EXCEPT !.built = TRUE]}
        \cup {[none EXCEPT !.built = TRUE, !.transport = TRUE, !.status = StatusOK,
                           !.body = body, !.readable = r] : r \in BOOLEAN}
        \cup {[none EXCEPT !.built = TRUE, !.transport = TRUE, !.status = st,
                           !.body = "error page", !.readable = TRUE] :
                 st \in Statuses \ {StatusOK}}

\* The requests handed to HTTPClient.Do in one exchange.
Requests(x) == IF x.built THEN <<x>> ELSE <<>>

Returns(value, e) == [value |-> value, err |-> e]

\* func (c *IMDSClient) GetToken() (string, error)
GetToken(x) ==
    IF ~x.built THEN Returns("", <<"failed to create token request">>)
    ELSE IF ~x.transport THEN Returns("", <<"failed to get metadata token">>)
    ELSE IF x.status # StatusOK
    THEN Returns("", <<"metadata token request returned status">>)
    ELSE IF ~x.readable THEN Returns("", <<"failed to read metadata token">>)
    ELSE Returns(x.body, <<>>)

\* Faulty variant: the status of the response is not looked at.
GetMetadataAnyStatus(x) ==
    IF ~x.built THEN Returns("", <<"failed to create metadata request">>)
    ELSE IF ~x.transport THEN Returns("", <<"failed to get metadata">>)
    ELSE IF ~x.readable THEN Returns("", <<"failed to read metadata">>)
    ELSE Returns(x.body, <<>>)

\* func (c *IMDSClient) GetMetadata(token, path string) (string, error)
GetMetadata(x) ==
    IF ~x.built THEN Returns("", <<"failed to create metadata request">>)
    ELSE IF ~x.transport THEN Returns("", <<"failed to get metadata">>)
    ELSE IF x.status # StatusOK
    THEN Returns("", <<"metadata request returned status">>)
    ELSE IF ~x.readable THEN Returns("", <<"failed to read metadata">>)
    ELSE Returns(x.body, <<>>)

\* The log entry of a metadata call: what it returned and what it sent.
MetadataCall(op, arg, r, x) ==
    [op |-> op, arg |-> arg, ok |-> r.err = <<>>,
     ret |-> IF r.err = <<>> THEN <<r.value>> ELSE <<>>,
     value |-> r.value, http |-> Requests(x), exchange |-> x]

----------------------------------------------------------------------------
\* 2. Get instance metadata: the token.
GetTokenStep ==
    /\ pc = "GetToken"
    /\ \E x \in Exchanges("PUT", "/latest/api/token", TokenOf(binds)) :
        LET r == GetToken(x) IN
        /\ Log(MetadataCall("GetToken", <<>>, r, x))
        /\ IF r.err # <<>>
           THEN ReturnError("get metadata token") /\ UNCHANGED mdToken
           ELSE /\ mdToken' = r.value
                /\ Goto("GetPublicIPv4")
    /\ UNCHANGED <<dir, nextAssoc, binds, others, targetIP, address,
                   instancePublicIP, instanceID, networkInterfaceID, before, mutated,
                   stale>>
    /\ UNCHANGED cli
    /\ UNCHANGED scope

\* Faulty variant: the token of the first invocation is kept and sent again.
CachedToken == TokenOf(1)

\* The `token` local handed to both GetMetadata calls.
Token == mdToken

\* 2. Get instance metadata: meta-data/public-ipv4.
GetPublicIPv4Step ==
    /\ pc = "GetPublicIPv4"
    /\ \E ip \in IPs : \E x \in Exchanges("GET", "/latest/meta-data/public-ipv4", ip) :
        LET r == GetMetadata(x) IN
        /\ Log(MetadataCall("GetMetadata", <<Token, "meta-data/public-ipv4">>, r, x))
        /\ IF r.err # <<>>
           THEN ReturnError("get public-ipv4") /\ UNCHANGED instancePublicIP
           ELSE /\ instancePublicIP' = r.value
                /\ Goto("GetInstanceID")
    /\ UNCHANGED <<dir, nextAssoc, binds, others, targetIP, address, mdToken,
                   instanceID, networkInterfaceID, before, mutated, stale>>
    /\ UNCHANGED cli
    /\ UNCHANGED scope

\* Faulty variant: the short-circuit is decided from the looked-up address.
AlreadyAssociatedByLookup == address.NetworkInterfaceId = <<HostENI>>

\* 3. Already associated: targetIP == instancePublicIP.
AlreadyAssociated == targetIP = instancePublicIP

\* Faulty variant: the previous association is never removed.
NeverDisassociate == FALSE

\* Faulty variant: a disassociation is attempted for a free address too.
AlwaysDisassociate == TRUE

\* 4. Disassociate from previous instance if needed: address.AssociationId != nil.
NeedsDisassociate == address.AssociationId # <<>>

\* Faulty variant: the disassociation is decided before the short-circuit.
AfterIdentifyDetachFirst ==
    IF NeedsDisassociate THEN "DisassociateAddress"
    ELSE IF AlreadyAssociated THEN "returned"
    ELSE "DescribeNetworkInterfaces"

\* The step Bind takes once the three metadata values are in hand.
AfterIdentify ==
    IF AlreadyAssociated THEN "returned"
    ELSE IF NeedsDisassociate THEN "DisassociateAddress"
    ELSE "DescribeNetworkInterfaces"

\* Faulty variant: the short-circuit reports the association it looked up.
AlreadyBindResultWithAssociation(id) ==
    [AlreadyAssociated |-> TRUE,
     AssociationID |-> IF address.AssociationId = <<>> THEN 0
                       ELSE address.AssociationId[1],
     InstanceID |-> id]

\* &BindResult{AlreadyAssociated: true, InstanceID: instanceID}
AlreadyBindResult(id) ==
    [AlreadyAssociated |-> TRUE, AssociationID |-> 0, InstanceID |-> id]

\* Faulty variant: the wrapping message was copied from the fetch above.
ErrCopiedFromPublicIPv4 == "get public-ipv4"

\* fmt.Errorf("get instance-id: %w", err)
ErrGetInstanceID == "get instance-id"

\* 2./3./4. meta-data/instance-id, then the already-associated short-circuit
\* and the choice between disassociating and going on.
GetInstanceIDStep ==
    /\ pc = "GetInstanceID"
    /\ \E id \in InstanceIDs : \E x \in Exchanges("GET", "/latest/meta-data/instance-id", id) :
        LET r == GetMetadata(x) IN
        /\ Log(MetadataCall("GetMetadata", <<Token, "meta-data/instance-id">>, r, x))
        /\ IF r.err # <<>>
           THEN ReturnError(ErrGetInstanceID) /\ UNCHANGED instanceID
           ELSE /\ instanceID' = r.value
                /\ IF AfterIdentify = "returned"
                   THEN ReturnResult(AlreadyBindResult(r.value))
                   ELSE Goto(AfterIdentify)
    /\ UNCHANGED <<dir, nextAssoc, binds, others, targetIP, address, mdToken,
                   instancePublicIP, networkInterfaceID, before, mutated, stale>>
    /\ UNCHANGED cli
    /\ UNCHANGED scope

\* Faulty variant: the error of DisassociateAddress is ignored.
IgnoreDisassociateError == "DescribeNetworkInterfaces"

\* The step Bind takes when DisassociateAddress returned an error.
AfterDisassociateError == "returned"

\* Faulty variant: the association of the host's own address is removed.
DisassociateHostAddress == dir[instancePublicIP].AssociationId

\* DisassociateAddressInput{AssociationId: address.AssociationId}
DisassociateArg == address.AssociationId

\* 4. DisassociateAddress(address.AssociationId). The directory refuses an
\* association id that no address holds.
DisassociateAddressStep ==
    /\ pc = "DisassociateAddress"
    /\ \E ok \in BOOLEAN :
        /\ ok => ~CtxDone
        /\ ok => HoldersOf(dir, DisassociateArg) # {}
        /\ Log(Call("DisassociateAddress", <<DisassociateArg>>, ok, <<>>))
        /\ IF ok
           THEN /\ dir' = DisassociateAddress(dir, DisassociateArg)
                /\ Goto("DescribeNetworkInterfaces")
           ELSE /\ UNCHANGED dir
                /\ IF AfterDisassociateError = "returned"
                   THEN ReturnError("disassociate EIP")
                   ELSE Goto(AfterDisassociateError)
    /\ UNCHANGED <<nextAssoc, binds, others, locals, before, mutated, stale>>
    /\ UNCHANGED cli
    /\ UNCHANGED scope

\* Line 115-116 dereferences *address.AllocationId for the log line: a nil
\* AllocationId is a nil-pointer panic there.
AfterLocate ==
    IF address.AllocationId = <<>> THEN "panic" ELSE "AssociateAddress"

\* Faulty variant: the interface is looked up by the target address.
LocateByTarget == targetIP

\* Filter addresses.association.public-ip, Values: []string{instancePublicIP}.
LocateFilter == instancePublicIP

\* Faulty variant: the emptiness check is missing, and NetworkInterfaces[0]
\* of an empty list is an index-out-of-range panic.
LocateNextUnchecked(out) == IF Len(out) = 0 THEN "panic" ELSE AfterLocate

\* if len(eniOut.NetworkInterfaces) == 0 { return nil, ... }
LocateNext(out) == IF Len(out) = 0 THEN "returned" ELSE AfterLocate

\* networkInterfaceID := eniOut.NetworkInterfaces[0].NetworkInterfaceId
FirstInterface(out) == out[1].NetworkInterfaceId

\* 5. Find the network interface by the instance's public IP; `replies` are
\* the lists the directory may answer with.
LocateStep(replies) ==
    /\ pc = "DescribeNetworkInterfaces"
    /\ \E ok \in BOOLEAN, out \in replies :
        /\ ok => ~CtxDone
        /\ Log(Call("DescribeNetworkInterfaces", <<LocateFilter>>, ok,
                    IF ok THEN out ELSE <<>>))
        /\ IF ~ok
           THEN ReturnError("describe network interfaces")
                /\ UNCHANGED networkInterfaceID
           ELSE IF LocateNext(out) = "returned"
           THEN ReturnError("no network interface found")
                /\ UNCHANGED networkInterfaceID
           ELSE IF Len(out) = 0
           THEN Goto("panic") /\ UNCHANGED networkInterfaceID
           ELSE /\ networkInterfaceID' = FirstInterface(out)
                /\ Goto(LocateNext(out))
    /\ UNCHANGED <<dir, nextAssoc, binds, others, targetIP, address, mdToken,
                   instancePublicIP, instanceID, before, mutated, stale>>
    /\ UNCHANGED cli
    /\ UNCHANGED scope

\* 5. The directory answers with the interfaces that carry the public IP.
DescribeNetworkInterfacesStep ==
    LocateStep({DescribeNetworkInterfaces(dir, LocateFilter)})

\* assocID := ""; if assocOut.AssociationId != nil { assocID = *assocOut.AssociationId }
AssocIDOf(out) == IF out = <<>> THEN 0 ELSE out[1]

\* Faulty variant: the result reports the association that was looked up.
StaleBindResult(out) ==
    [AlreadyAssociated |-> FALSE,
     AssociationID |-> AssocIDOf(address.AssociationId),
     InstanceID |-> instanceID]

\* The BindResult of a new association.
NewBindResult(out) ==
    [AlreadyAssociated |-> FALSE,
     AssociationID |-> AssocIDOf(out),
     InstanceID |-> instanceID]

\* AssociateAddressInput{AllocationId: address.AllocationId, ...}
AssociateAllocation == address.AllocationId

\* Faulty variant: the address is associated with the interface it was
\* looked up on.
AssociateLookedUpInterface == address.NetworkInterfaceId

\* AssociateAddressInput{..., NetworkInterfaceId: networkInterfaceID}
AssociateInterface == networkInterfaceID

\* 5. AssociateAddress(address.AllocationId, networkInterfaceID). The
\* directory refuses an allocation id it does not know; its reply may omit
\* the association id.
AssociateAddressStep ==
    /\ pc = "AssociateAddress"
    /\ \E ok \in BOOLEAN, present \in BOOLEAN :
        LET out == IF present THEN <<nextAssoc>> ELSE <<>> IN
        /\ ok => ~CtxDone
        /\ ok => AllocatedAs(dir, AssociateAllocation) # {}
        /\ ~ok => present
        /\ Log(Call("AssociateAddress",
                    <<AssociateAllocation, AssociateInterface>>, ok,
                    IF ok THEN out ELSE <<>>))
        /\ IF ok
           THEN /\ dir' = AssociateAddress(dir, AssociateAllocation,
                                           AssociateInterface, nextAssoc)
                /\ nextAssoc' = nextAssoc + 1
                /\ ReturnResult(NewBindResult(out))
           ELSE /\ UNCHANGED <<dir, nextAssoc>>
                /\ ReturnError("associate EIP")
    /\ UNCHANGED <<binds, others, locals, before, mutated, stale>>
    /\ UNCHANGED cli
    /\ UNCHANGED scope

Next ==
    \/ \E t \in IPs : Bind(t)
    \/ DescribeAddressesStep
    \/ GetTokenStep
    \/ GetPublicIPv4Step
    \/ GetInstanceIDStep
    \/ DisassociateAddressStep
    \/ DescribeNetworkInterfacesStep
    \/ AssociateAddressStep
    \/ \E ip \in IPs : OtherDisassociate(ip)
    \/ \E ip \in IPs, eni \in ENIs : OtherAssociate(ip, eni)

Spec == Init /\ [][Next]_vars

\* A directory that answers a lookup with more than one element: besides the
\* address with the public IP asked for, the reply may hold a second address
\* record under the same public IP (the data of the other allocation), before
\* or after it.
AddressLists(d, ip) ==
    LET real == DescribeAddresses(d, ip)
        more == {[AddressOf(d, o) EXCEPT !.PublicIp = <<ip>>] :
                    o \in {x \in IPs \ {ip} : d[x].allocated /\ real # <<>>}}
    IN  {real} \cup {real \o <<e>> : e \in more} \cup {<<e>> \o real : e \in more}

\* Likewise the reply to the locate may hold a second interface, before or
\* after the one that carries the public IP.
InterfaceLists(d, ip) ==
    LET real == DescribeNetworkInterfaces(d, ip)
        more == {[NetworkInterfaceId |-> <<eni>>] :
                    eni \in {x \in ENIs : real # <<>> /\ real[1].NetworkInterfaceId # <<x>>}}
    IN  {real} \cup {real \o <<e>> : e \in more} \cup {<<e>> \o real : e \in more}

DescribeAddressesAnyStep == LookupStep(AddressLists(dir, targetIP))

DescribeNetworkInterfacesAnyStep == LocateStep(InterfaceLists(dir, LocateFilter))

NextMulti ==
    \/ \E t \in IPs : Bind(t)
    \/ DescribeAddressesAnyStep
    \/ GetTokenStep
    \/ GetPublicIPv4Step
    \/ GetInstanceIDStep
    \/ DisassociateAddressStep
    \/ DescribeNetworkInterfacesAnyStep
    \/ AssociateAddressStep
    \/ \E ip \in IPs : OtherDisassociate(ip)
    \/ \E ip \in IPs, eni \in ENIs : OtherAssociate(ip, eni)

\* Bind against a directory whose lookups may return several elements.
SpecMulti == Init /\ [][NextMulti]_vars

\* One step of a running invocation: a remote call returns and Bind handles
\* the reply up to its next call or its return.
BindStep ==
    \/ DescribeAddressesStep
    \/ GetTokenStep
    \/ GetPublicIPv4Step
    \/ GetInstanceIDStep
    \/ DisassociateAddressStep
    \/ DescribeNetworkInterfacesStep
    \/ AssociateAddressStep

\* 6. Associate, first half: the directory carries out (or refuses) the
\* AssociateAddress request; the reply is on its way to Bind.
AssociateAddressCommit ==
    /\ pc = "AssociateAddress"
    /\ \E ok \in BOOLEAN, present \in BOOLEAN :
        LET out == IF present THEN <<nextAssoc>> ELSE <<>> IN
        /\ ok => ~CtxDone
        /\ ok => AllocatedAs(dir, AssociateAllocation) # {}
        /\ ~ok => present
        /\ Log(Call("AssociateAddress",
                    <<AssociateAllocation, AssociateInterface>>, ok,
                    IF ok THEN out ELSE <<>>))
        /\ IF ok
           THEN /\ dir' = AssociateAddress(dir, AssociateAllocation,
                                           AssociateInterface, nextAssoc)
                /\ nextAssoc' = nextAssoc + 1
           ELSE UNCHANGED <<dir, nextAssoc>>
    /\ Goto("AssociateAddressReturn")
    /\ UNCHANGED <<binds, others, locals, before, mutated, stale>>
    /\ UNCHANGED cli
    /\ UNCHANGED scope

\* 6. Associate, second half: the reply arrives and Bind returns.
AssociateAddressReturn ==
    /\ pc = "AssociateAddressReturn"
    /\ LET reply == calls[Len(calls)] IN
        IF reply.ok
        THEN ReturnResult(NewBindResult(reply.ret))
        ELSE ReturnError("associate EIP")
    /\ UNCHANGED <<dir, nextAssoc, binds, others, locals, calls, before, mutated,
                   stale>>
    /\ UNCHANGED cli
    /\ UNCHANGED scope

SplitNext ==
    \/ \E t \in IPs : Bind(t)
    \/ DescribeAddressesStep
    \/ GetTokenStep
    \/ GetPublicIPv4Step
    \/ GetInstanceIDStep
    \/ DisassociateAddressStep
    \/ DescribeNetworkInterfacesStep
    \/ AssociateAddressCommit
    \/ AssociateAddressReturn
    \/ \E ip \in IPs : OtherDisassociate(ip)
    \/ \E ip \in IPs, eni \in ENIs : OtherAssociate(ip, eni)

\* Bind with the other process able to act between the moment the directory
\* carries out AssociateAddress and the moment Bind returns.
SplitSpec == Init /\ [][SplitNext]_vars

\* The caller's ctx is cancelled (or its deadline passes) while Bind runs.
Cancel ==
    /\ Running
    /\ ~ctxDone
    /\ ctxDone' = TRUE
    /\ UNCHANGED <<dir, nextAssoc, binds, others, pc, locals, result, err, calls,
                   before, mutated, stale, binder, recovering>>
    /\ UNCHANGED cli

CancelNext ==
    \/ \E t \in IPs : Bind(t)
    \/ Cancel
    \/ DescribeAddressesStep
    \/ GetTokenStep
    \/ GetPublicIPv4Step
    \/ GetInstanceIDStep
    \/ DisassociateAddressStep
    \/ DescribeNetworkInterfacesStep
    \/ AssociateAddressStep
    \/ \E ip \in IPs : OtherDisassociate(ip)
    \/ \E ip \in IPs, eni \in ENIs : OtherAssociate(ip, eni)

\* Bind under a caller that may cancel the ctx at any point of the invocation.
CancelSpec == Init /\ [][CancelNext]_vars

\* Every remote call eventually returns: Bind calls synchronously and has no
\* other way to wait, so a running invocation keeps taking steps.
FairSpec == Spec /\ WF_vars(BindStep)

----------------------------------------------------------------------------
\* The command line (eip/config.go).  A string is the sequence of its
\* characters.

Digit == {"0", "1", "2", "3", "4", "5", "6", "7", "8", "9"}

DigitValue(c) == CHOOSE n \in 0..9 : ToString(n) = c

HexDigit == Digit \cup {"a", "b", "c", "d", "e", "f", "A", "B", "C", "D", "E", "F"}

HexValue(c) ==
    CASE c \in Digit -> DigitValue(c)
      [] c \in {"a", "A"} -> 10
      [] c \in {"b", "B"} -> 11
      [] c \in {"c", "C"} -> 12
      [] c \in {"d", "D"} -> 13
      [] c \in {"e", "E"} -> 14
      [] c \in {"f", "F"} -> 15

Zeros(n) == [i \in 1..n |-> 0]

\* The dotted-decimal parser behind net.ParseIP: four fields of digits, no
\* field empty, none above 255, none with a leading zero.  The result is the
\* four bytes, or <<>> for a parse error.
RECURSIVE ScanIPv4(_, _, _, _, _)
ScanIPv4(s, i, val, digLen, fields) ==
    IF i > Len(s)
    THEN IF Len(fields) < 3 THEN <<>> ELSE Append(fields, val)
    ELSE IF s[i] \in Digit
    THEN IF digLen = 1 /\ val = 0 THEN <<>>
         ELSE IF val * 10 + DigitValue(s[i]) > 255 THEN <<>>
         ELSE ScanIPv4(s, i + 1, val * 10 + DigitValue(s[i]), digLen + 1, fields)
    ELSE IF s[i] = "."
    THEN IF i = 1 \/ i = Len(s) \/ s[i - 1] = "." THEN <<>>
         ELSE IF Len(fields) = 3 THEN <<>>
         ELSE ScanIPv4(s, i + 1, 0, 0, Append(fields, val))
    ELSE <<>>

ParseIPv4Fields(s) == ScanIPv4(s, 1, 0, 0, <<>>)

\* The number of hex digits of s from position p on.
RECURSIVE HexRun(_, _)
HexRun(s, p) ==
    IF p <= Len(s) /\ s[p] \in HexDigit THEN 1 + HexRun(s, p + 1) ELSE 0

\* The value of the n hex digits of s from position p on.
RECURSIVE HexNumber(_, _, _)
HexNumber(s, p, n) ==
    IF n = 0 THEN 0 ELSE HexNumber(s, p, n - 1) * 16 + HexValue(s[p + n - 1])

\* The end of the IPv6 parser: the whole string must be used; a short
\* address is filled with zeros at the "::", which must stand for at least
\* one group.
EndIPv6(s, p, ip, ellipsis) ==
    IF p <= Len(s) THEN <<>>
    ELSE IF Len(ip) < 16
    THEN IF ellipsis < 0 THEN <<>>
         ELSE SubSeq(ip, 1, ellipsis) \o Zeros(16 - Len(ip))
                  \o SubSeq(ip, ellipsis + 1, Len(ip))
    ELSE IF ellipsis >= 0 THEN <<>>
    ELSE ip

\* The loop of the IPv6 parser: groups of one to four hex digits separated
\* by colons, at most one "::", and a dotted-decimal IPv4 address allowed in
\* place of the last two groups.  ip holds the bytes parsed so far.
RECURSIVE ScanIPv6(_, _, _, _)
ScanIPv6(s, p, ip, ellipsis) ==
    IF Len(ip) >= 16 THEN EndIPv6(s, p, ip, ellipsis)
    ELSE
    LET off == HexRun(s, p)
        acc == HexNumber(s, p, off)
        q   == p + off
        ip2 == ip \o <<acc \div 256, acc % 256>>
    IN  IF off > 4 \/ off = 0 THEN <<>>
        ELSE IF q <= Len(s) /\ s[q] = "."
        THEN IF ellipsis < 0 /\ Len(ip) # 12 THEN <<>>
             ELSE IF Len(ip) + 4 > 16 THEN <<>>
             ELSE IF ParseIPv4Fields(SubSeq(s, p, Len(s))) = <<>> THEN <<>>
             ELSE EndIPv6(s, Len(s) + 1,
                          ip \o ParseIPv4Fields(SubSeq(s, p, Len(s))), ellipsis)
        ELSE IF q > Len(s) THEN EndIPv6(s, q, ip2, ellipsis)
        ELSE IF s[q] # ":" \/ q = Len(s) THEN <<>>
        ELSE IF s[q + 1] # ":" THEN ScanIPv6(s, q + 1, ip2, ellipsis)
        ELSE IF ellipsis >= 0 THEN <<>>
        ELSE IF q + 2 > Len(s) THEN EndIPv6(s, q + 2, ip2, Len(ip2))
        ELSE ScanIPv6(s, q + 2, ip2, Len(ip2))

ParseIPv6(s) ==
    IF Len(s) >= 2 /\ s[1] = ":" /\ s[2] = ":"
    THEN IF Len(s) = 2 THEN Zeros(16) ELSE ScanIPv6(s, 3, <<>>, 0)
    ELSE ScanIPv6(s, 1, <<>>, -1)

\* The first of ".", ":" and "%" in s decides how s is parsed.
FirstMark(s) ==
    LET marks == {i \in 1..Len(s) : s[i] \in {".", ":", "%"}}
    IN  IF marks = {} THEN ""
        ELSE s[CHOOSE i \in marks : \A j \in marks : i <= j]

\* net.ParseIP(s): the 16-byte form of the address, an IPv4 address as the
\* IPv4-mapped IPv6 address; <<>> (nil) when s is no address or has a zone.
ParseIP(s) ==
    IF FirstMark(s) = "."
    THEN IF ParseIPv4Fields(s) = <<>> THEN <<>>
         ELSE Zeros(10) \o <<255, 255>> \o ParseIPv4Fields(s)
    ELSE IF FirstMark(s) = ":" /\ \A i \in 1..Len(s) : s[i] # "%"
    THEN ParseIPv6(s)
    ELSE <<>>

\* ip.To4(): the four bytes of an IPv4 or IPv4-mapped address, else nil.
To4(ip) ==
    IF Len(ip) = 4 THEN ip
    ELSE IF /\ Len(ip) = 16
            /\ \A i \in 1..10 : ip[i] = 0
            /\ ip[11] = 255 /\ ip[12] = 255
    THEN SubSeq(ip, 13, 16)
    ELSE <<>>

\* Faulty variant: the pod name is used as the variable name as it is.
ReplaceNone(s, old, new) == s

\* strings.ReplaceAll(s, old, new) for one-character old and new.
ReplaceAll(s, old, new) == [i \in 1..Len(s) |-> IF s[i] = old THEN new ELSE s[i]]

\* getenv(key): "" for a variable that is not set.
Getenv(env, key) == IF key \in DOMAIN env THEN env[key] ELSE <<>>

PodNameArg == <<"P", "O", "D", "_", "N", "A", "M", "E">>

ConfigError(e) == [cfg |-> <<>>, err |-> <<e>>]

\* ip := net.ParseIP(targetIP); ip == nil || ip.To4() == nil
ValidateTarget(t) ==
    IF ParseIP(t) = <<>> \/ To4(ParseIP(t)) = <<>>
    THEN ConfigError("invalid IPv4 address")
    ELSE [cfg |-> <<[TargetIP |-> t]>>, err |-> <<>>]

\* func ParseConfig(args []string, getenv func(string) string) (*Config, error)
ParseConfig(args, env) ==
    IF Len(args) < 1 THEN ConfigError("usage")
    ELSE IF args[1] = PodNameArg
    THEN IF Getenv(env, PodNameArg) = <<>>
         THEN ConfigError("environment variable POD_NAME is empty")
         ELSE IF Getenv(env, ReplaceAll(Getenv(env, PodNameArg), "-", "_")) = <<>>
         THEN ConfigError("environment variable (from POD_NAME) is empty")
         ELSE ValidateTarget(Getenv(env, ReplaceAll(Getenv(env, PodNameArg), "-", "_")))
    ELSE ValidateTarget(args[1])

\* func ParseConfigFromOS() (*Config, error)
ParseConfigFromOS(argv, env) ==
    IF Len(argv) < 2 THEN ConfigError("usage")
    ELSE ParseConfig(Tail(argv), env)

\* Number of arguments after the program name.
MaxArgs == 2

ProgramName == <<"e", "i", "p">>

\* First arguments: an IPv4 address, the POD_NAME keyword, an IPv4-mapped
\* IPv6 address, an IPv6 address, a field with a leading zero, the empty
\* string, three fields only, a field above 255.
FirstArgs ==
    {<<"1", ".", "2", ".", "3", ".", "4">>,
     PodNameArg,
     <<":", ":", "f", "f", "f", "f", ":", "1", ".", "2", ".", "3", ".", "4">>,
     <<":", ":", "1">>,
     <<"1", ".", "2", ".", "3", ".", "0", "4">>,
     <<>>,
     <<"1", ".", "2", ".", "3">>,
     <<"1", ".", "2", ".", "2", "5", "6">>}

\* Further arguments.
MoreArgs == {<<"5", ".", "6", ".", "7", ".", "8">>, <<"x">>}

\* The argument lists of up to n arguments.
RECURSIVE ArgLists(_)
ArgLists(n) ==
    IF n = 0 THEN {<<>>}
    ELSE IF n = 1 THEN {<<>>} \cup {<<a>> : a \in FirstArgs}
    ELSE ArgLists(n - 1)
             \cup {Append(l, a) : l \in {x \in ArgLists(n - 1) : Len(x) = n - 1},
                                  a \in MoreArgs}

PodName == <<"w", "e", "b", "-", "0">>

\* The environments: POD_NAME unset or set, the variable named after the pod
\* with hyphens replaced unset, an address or no address, and the variable
\* named exactly like the pod unset or an address.
Environments ==
    {[k \in {PodNameArg, ReplaceAll(PodName, "-", "_"), PodName} |->
         CASE k = PodNameArg -> p
           [] k = PodName -> h
           [] OTHER -> u] :
       p \in {<<>>, PodName},
       u \in {<<>>, <<"1", ".", "2", ".", "3", ".", "4">>, <<"n", "o">>},
       h \in {<<>>, <<"5", ".", "6", ".", "7", ".", "8">>}}

\* A process is started with some argument list in some environment.
CliInit ==
    /\ BinderInit
    /\ \A ip \in IPs : dir[ip] = Unallocated
    /\ osArgs \in {<<>>} \cup {<<ProgramName>> \o l : l \in ArgLists(MaxArgs)}
    /\ environ \in Environments
    /\ cfg = <<>>
    /\ cfgErr = <<>>
    /\ awsCfg = <<>>
    /\ awsErr = <<>>
    /\ mainPc = "ParseConfigFromOS"
    /\ exitCode = <<>>

\* logger.Fatalf(...): the error is logged and the process exits with status 1.
Fatalf ==
    /\ mainPc' = "exited"
    /\ exitCode' = <<1>>

MainGoto(next) ==
    /\ mainPc' = next
    /\ UNCHANGED exitCode

\* cfg, err := eip.ParseConfigFromOS(); if err != nil { logger.Fatalf(...) }
ParseConfigFromOSStep ==
    /\ mainPc = "ParseConfigFromOS"
    /\ cfg' = ParseConfigFromOS(osArgs, environ).cfg
    /\ cfgErr' = ParseConfigFromOS(osArgs, environ).err
    /\ IF cfgErr' # <<>> THEN Fatalf ELSE MainGoto("LoadDefaultConfig")
    /\ UNCHANGED <<osArgs, environ, awsCfg, awsErr>>
    /\ UNCHANGED <<dir, nextAssoc, binds, others, pc, targetIP, address, mdToken,
                   instancePublicIP, instanceID, networkInterfaceID, result, err,
                   calls, before, mutated, stale>>
    /\ UNCHANGED scope

CliNext == ParseConfigFromOSStep

CliSpec == CliInit /\ [][CliNext]_vars

----------------------------------------------------------------------------
\* The entry point (main.go).

\* The address each public IP of the directory is written as.
Dotted(ip) ==
    IF ip = "ip1" THEN <<"1", ".", "2", ".", "3", ".", "4">>
    ELSE <<"5", ".", "6", ".", "7", ".", "8">>

\* A process is started with at most one argument, against any directory;
\* an argument that resolves to an address is an address of the directory.
MainInit ==
    /\ BinderInit
    /\ osArgs \in {<<>>} \cup {<<ProgramName>> \o l : l \in ArgLists(1)}
    /\ environ \in Environments
    /\ IF ParseConfigFromOS(osArgs, environ).cfg = <<>> THEN TRUE
       ELSE \E t \in IPs : Dotted(t) = ParseConfigFromOS(osArgs, environ).cfg[1].TargetIP
    /\ cfg = <<>>
    /\ cfgErr = <<>>
    /\ awsCfg = <<>>
    /\ awsErr = <<>>
    /\ mainPc = "ParseConfigFromOS"
    /\ exitCode = <<>>

\* awsCfg, err := config.LoadDefaultConfig(ctx); if err != nil { logger.Fatalf(...) }
LoadDefaultConfigStep ==
    /\ mainPc = "LoadDefaultConfig"
    /\ \E ok \in BOOLEAN :
        IF ok
        THEN awsCfg' = <<"awsCfg">> /\ UNCHANGED awsErr /\ MainGoto("Bind")
        ELSE awsErr' = <<"load AWS config">> /\ UNCHANGED awsCfg /\ Fatalf
    /\ UNCHANGED <<osArgs, environ, cfg, cfgErr>>
    /\ UNCHANGED <<dir, nextAssoc, binds, others, pc, targetIP, address, mdToken,
                   instancePublicIP, instanceID, networkInterfaceID, result, err,
                   calls, before, mutated, stale>>
    /\ UNCHANGED scope

\* result, err := binder.Bind(ctx, cfg.TargetIP): the call.
MainBindStep ==
    /\ mainPc = "Bind"
    /\ \E t \in IPs : Dotted(t) = cfg[1].TargetIP /\ BindCall(t)
    /\ MainGoto("Binding")
    /\ UNCHANGED <<osArgs, environ, cfg, cfgErr, awsCfg, awsErr>>

\* Bind returned: if err != nil { logger.Fatalf("bind: %v", err) }, else the
\* result is logged and main returns.
MainReturnStep ==
    /\ mainPc = "Binding"
    /\ pc = "returned"
    /\ IF err # <<>> THEN Fatalf ELSE mainPc' = "exited" /\ exitCode' = <<0>>
    /\ UNCHANGED <<osArgs, environ, cfg, cfgErr, awsCfg, awsErr>>
    /\ UNCHANGED <<dir, nextAssoc, binds, others, pc, targetIP, address, mdToken,
                   instancePublicIP, instanceID, networkInterfaceID, result, err,
                   calls, before, mutated, stale>>
    /\ UNCHANGED scope

\* Bind panicked: nothing in main recovers, the Go runtime prints the panic
\* and the process exits with status 2.
MainPanicStep ==
    /\ mainPc = "Binding"
    /\ pc = "panic"
    /\ mainPc' = "crashed"
    /\ exitCode' = <<2>>
    /\ UNCHANGED <<osArgs, environ, cfg, cfgErr, awsCfg, awsErr>>
    /\ UNCHANGED <<dir, nextAssoc, binds, others, pc, targetIP, address, mdToken,
                   instancePublicIP, instanceID, networkInterfaceID, result, err,
                   calls, before, mutated, stale>>
    /\ UNCHANGED scope

MainNext ==
    \/ ParseConfigFromOSStep
    \/ LoadDefaultConfigStep
    \/ MainBindStep
    \/ DescribeAddressesStep
    \/ GetTokenStep
    \/ GetPublicIPv4Step
    \/ GetInstanceIDStep
    \/ DisassociateAddressStep
    \/ DescribeNetworkInterfacesStep
    \/ AssociateAddressStep
    \/ MainReturnStep
    \/ MainPanicStep

\* One run of the program, from its start to its exit.
MainSpec == MainInit /\ [][MainNext]_vars


----------------------------------------------------------------------------
\* Reading the call log of the current invocation.

CallsOf(op) == {i \in 1..Len(calls) : calls[i].op = op}

Issued(op) == CallsOf(op) # {}

\* The GetMetadata calls for one path.
MetadataCalls(path) ==
    {i \in CallsOf("GetMetadata") : calls[i].arg[2] = path}

\* The public address the metadata service returned in this invocation.
HostPublicAddressIs(ip) ==
    \E i \in MetadataCalls("meta-data/public-ipv4") :
        calls[i].ok /\ calls[i].ret = <<ip>>

\* All of lookup, token and the two metadata fetches succeeded.
Identified ==
    /\ \E i \in CallsOf("DescribeAddresses") : calls[i].ok /\ calls[i].ret # <<>>
    /\ \E i \in CallsOf("GetToken") : calls[i].ok
    /\ \E i \in MetadataCalls("meta-data/public-ipv4") : calls[i].ok
    /\ \E i \in MetadataCalls("meta-data/instance-id") : calls[i].ok

Succeeded == pc = "returned" /\ result # <<>> /\ err = <<>>

Failed == pc = "returned" /\ result = <<>> /\ err # <<>>

----------------------------------------------------------------------------
\* C1. Idempotence short-circuit: when the lookup, the token and both
\* metadata fetches succeeded and the host public address equals the target,
\* Bind has returned a result with AlreadyAssociated = TRUE and this
\* invocation issued no DisassociateAddress and no AssociateAddress, whatever
\* association the looked-up address carries.
C1_Idempotence ==
    (Identified /\ HostPublicAddressIs(targetIP)) =>
        /\ Succeeded
        /\ result[1].AlreadyAssociated
        /\ ~Issued("DisassociateAddress")
        /\ ~Issued("AssociateAddress")

\* The short-circuit taken for an address that is associated somewhere.
C1_Witness ==
    /\ Identified /\ HostPublicAddressIs(targetIP)
    /\ address.AssociationId # <<>>
    /\ Succeeded /\ result[1].AlreadyAssociated

\* C2. Ordering: in an invocation whose looked-up address carries an
\* association, AssociateAddress is issued (or about to be issued) only after
\* a DisassociateAddress of this invocation returned successfully.
C2_DetachBeforeAttach ==
    (address.AssociationId # <<>>) =>
        /\ pc = "AssociateAddress" =>
               \E j \in CallsOf("DisassociateAddress") : calls[j].ok
        /\ \A i \in CallsOf("AssociateAddress") :
               \E j \in CallsOf("DisassociateAddress") : j < i /\ calls[j].ok

\* An AssociateAddress issued after a successful DisassociateAddress.
C2_Witness ==
    /\ address.AssociationId # <<>>
    /\ \E i \in CallsOf("AssociateAddress") :
           \E j \in CallsOf("DisassociateAddress") : j < i /\ calls[j].ok

\* The target is associated with an interface other than the one Bind is
\* about to associate it with.
AttachedElsewhere ==
    /\ dir[targetIP].NetworkInterfaceId # <<>>
    /\ dir[targetIP].NetworkInterfaceId # networkInterfaceID

\* C3 as stated: whenever Bind is about to issue AssociateAddress, the
\* directory does not hold the target associated with another interface, in
\* every interleaving with another process.
C3_NeverAttachedElsewhere ==
    pc = "AssociateAddress" => ~AttachedElsewhere

\* C3, amended: the same, provided no other process changed the directory
\* between this invocation's DescribeAddresses and its AssociateAddress.
C3_NeverAttachedElsewhereUndisturbed ==
    (pc = "AssociateAddress" /\ ~stale) => ~AttachedElsewhere

\* Bind about to associate a target that was associated elsewhere when it
\* was looked up, with no other process in between.
C3_Witness ==
    /\ pc = "AssociateAddress" /\ ~stale
    /\ address.NetworkInterfaceId # <<>>
    /\ address.NetworkInterfaceId # networkInterfaceID
    /\ ~AttachedElsewhere

\* C4. Propagation: a failed remote call is the last call of its invocation,
\* and Bind has returned a non-nil error with a nil result.
C4_Propagation ==
    \A i \in 1..Len(calls) : ~calls[i].ok => (i = Len(calls) /\ Failed)

\* A failed AssociateAddress after four successful calls.
C4_Witness ==
    /\ Failed
    /\ \E i \in CallsOf("AssociateAddress") : ~calls[i].ok /\ i > 4

DetachSucceeded == \E j \in CallsOf("DisassociateAddress") : calls[j].ok

\* Call i is a locate that failed or found nothing, or an attach that failed.
LocateOrAttachFailed(i) ==
    \/ /\ calls[i].op = "DescribeNetworkInterfaces"
       /\ (~calls[i].ok \/ calls[i].ret = <<>>)
    \/ /\ calls[i].op = "AssociateAddress"
       /\ ~calls[i].ok

Unattached(d, ip) == d[ip].AssociationId = <<>> /\ d[ip].NetworkInterfaceId = <<>>

\* C5. Partial-state hazard: after a successful DisassociateAddress, a locate
\* that fails or finds nothing, or an attach that fails, ends the invocation
\* with an error and no result; no call follows it, nothing was retried, and
\* unless another process changed the directory the target is unattached.
C5_PartialState ==
    \A i \in 1..Len(calls) :
        (DetachSucceeded /\ LocateOrAttachFailed(i)) =>
            /\ Failed
            /\ i = Len(calls)
            /\ Cardinality(CallsOf("DisassociateAddress")) = 1
            /\ Cardinality(CallsOf("AssociateAddress")) <= 1
            /\ ~mutated => Unattached(dir, targetIP)

\* The degraded state: detached, attach failed, the target is unattached
\* although it was attached when the invocation began.
C5_Witness ==
    /\ DetachSucceeded /\ Failed /\ ~mutated
    /\ \E i \in CallsOf("AssociateAddress") : ~calls[i].ok
    /\ ~Unattached(before, targetIP)
    /\ Unattached(dir, targetIP)

DetachFailed == \E i \in CallsOf("DisassociateAddress") : ~calls[i].ok

\* The target is attached exactly as it was when the invocation began.
AttachedAsBefore ==
    /\ dir[targetIP] = before[targetIP]
    /\ dir[targetIP].AssociationId # <<>>

\* C6 as stated: when the DisassociateAddress call fails and Bind returns,
\* the target is attached exactly as it was before the invocation.
C6_DetachFailureKeepsState ==
    [][(pc = "DisassociateAddress" /\ pc' = "returned") => AttachedAsBefore']_vars

\* C6, amended: a failed DisassociateAddress ends the invocation with an
\* error and no result, neither DescribeNetworkInterfaces nor
\* AssociateAddress is issued, and unless another process changed the
\* directory during the invocation the target is attached as it was before.
C6_DetachFailureKeepsStateUndisturbed ==
    DetachFailed =>
        /\ Failed
        /\ ~Issued("DescribeNetworkInterfaces")
        /\ ~Issued("AssociateAddress")
        /\ ~mutated => AttachedAsBefore

\* A failed DisassociateAddress with the target still attached.
C6_Witness ==
    DetachFailed /\ Failed /\ ~mutated /\ AttachedAsBefore

\* C7. No detach when unattached: when the looked-up address carries no
\* association and the target differs from the host public address, no
\* DisassociateAddress is issued; the call after the metadata fetches is
\* DescribeNetworkInterfaces, and once that found an interface (the
\* allocation id being present) the next call is AssociateAddress.
C7_NoDetachWhenUnattached ==
    (Identified /\ address.AssociationId = <<>> /\ ~HostPublicAddressIs(targetIP)) =>
        /\ ~Issued("DisassociateAddress")
        /\ \/ pc = "DescribeNetworkInterfaces" /\ Len(calls) = 4
           \/ Len(calls) >= 5 /\ calls[5].op = "DescribeNetworkInterfaces"
        /\ (/\ Len(calls) >= 5
            /\ calls[5].ok /\ calls[5].ret # <<>>
            /\ address.AllocationId # <<>>) =>
               \/ pc = "AssociateAddress" /\ Len(calls) = 5
               \/ Len(calls) = 6 /\ calls[6].op = "AssociateAddress"

\* A free address attached without any DisassociateAddress.
C7_Witness ==
    /\ Identified /\ address.AssociationId = <<>> /\ ~HostPublicAddressIs(targetIP)
    /\ Succeeded
    /\ Len(calls) = 6 /\ calls[6].op = "AssociateAddress" /\ calls[6].ok
    /\ ~Issued("DisassociateAddress")

\* C8. Result fidelity: a returned result carries the instance id the
\* meta-data/instance-id fetch returned, and a result of a new association
\* carries the association id the AssociateAddress call returned (the empty
\* string when the reply carried none).
C8_ResultFidelity ==
    Succeeded =>
        /\ \E i \in MetadataCalls("meta-data/instance-id") :
               calls[i].ok /\ calls[i].ret = <<result[1].InstanceID>>
        /\ ~result[1].AlreadyAssociated =>
               \E i \in CallsOf("AssociateAddress") :
                   /\ calls[i].ok
                   /\ \/ calls[i].ret = <<result[1].AssociationID>>
                      \/ calls[i].ret = <<>> /\ result[1].AssociationID = 0

\* A new association replacing an older one, reported with its new id.
C8_Witness ==
    /\ Succeeded /\ ~result[1].AlreadyAssociated
    /\ address.AssociationId # <<>>
    /\ result[1].AssociationID # 0
    /\ <<result[1].AssociationID>> # address.AssociationId

\* The looked-up address lacks its AllocationId.
LookedUpWithoutAllocation ==
    \E i \in CallsOf("DescribeAddresses") :
        calls[i].ok /\ calls[i].ret # <<>> /\ calls[i].ret[1].AllocationId = <<>>

\* C9. Fail-fast on a missing allocation handle: when the looked-up address
\* has no AllocationId, Bind does not crash on the missing value, issues no
\* DisassociateAddress, and never issues AssociateAddress without an
\* allocation id.
C9_FailFastOnMissingAllocation ==
    LookedUpWithoutAllocation =>
        /\ pc # "panic"
        /\ ~Issued("DisassociateAddress")
        /\ \A i \in CallsOf("AssociateAddress") : calls[i].arg[1] # <<>>

\* The host's interface carried the host's public address, and not the
\* target, when the invocation began.
MoveStartsFrom ==
    /\ before[instancePublicIP].NetworkInterfaceId = <<HostENI>>
    /\ before[targetIP].NetworkInterfaceId # <<HostENI>>

\* The target is on the host's interface and its previous association is gone.
Moved ==
    /\ dir[targetIP].NetworkInterfaceId = <<HostENI>>
    /\ dir[targetIP].AssociationId # <<>>
    /\ HoldersOf(dir, before[targetIP].AssociationId) = {}

\* C10 as stated: when Bind returns a result with AlreadyAssociated = FALSE,
\* having started with the target attached elsewhere (or free) and the
\* host's public address on the host's interface, the target is attached to
\* the host's interface and no longer to the previous one.
C10_EndToEndMove ==
    [][(/\ pc # "returned" /\ pc' = "returned"
        /\ result' # <<>>
        /\ ~result'[1].AlreadyAssociated
        /\ MoveStartsFrom') => Moved']_vars

\* C10, amended: the same, provided no other process changed the directory
\* during the invocation.
C10_EndToEndMoveUndisturbed ==
    (/\ Succeeded
     /\ ~result[1].AlreadyAssociated
     /\ MoveStartsFrom
     /\ ~mutated) => Moved

\* The target moved from the other interface to the host's.
C10_Witness ==
    /\ Succeeded /\ ~result[1].AlreadyAssociated /\ ~mutated
    /\ MoveStartsFrom
    /\ before[targetIP].NetworkInterfaceId = <<"eni2">>
    /\ Moved

----------------------------------------------------------------------------
\* The lookup of this invocation succeeded and returned no address.
NoAddressFound ==
    \E i \in CallsOf("DescribeAddresses") : calls[i].ok /\ calls[i].ret = <<>>

\* C11. Target not found: when DescribeAddresses returns zero addresses,
\* Bind has returned the error "no addresses found" with no result, and the
\* lookup is the only call of the invocation: no metadata call and no other
\* directory call was issued.
C11_TargetNotFound ==
    NoAddressFound =>
        /\ Failed
        /\ err = <<"no addresses found">>
        /\ Len(calls) = 1

\* A lookup of a target the directory does not know.
C11_Witness ==
    /\ NoAddressFound /\ Failed
    /\ dir[targetIP] = Unallocated
    /\ calls[1].arg = <<targetIP>>

\* Call i is a locate that succeeded and returned no interface.
NoInterfaceFound(i) ==
    /\ calls[i].op = "DescribeNetworkInterfaces"
    /\ calls[i].ok /\ calls[i].ret = <<>>

\* C12. Attachment point not found: when DescribeNetworkInterfaces returns
\* zero interfaces, Bind has returned the error "no network interface found"
\* with no result, the locate is the last call and no AssociateAddress was
\* issued, whether or not a DisassociateAddress was performed before.
C12_InterfaceNotFound ==
    \A i \in 1..Len(calls) :
        NoInterfaceFound(i) =>
            /\ Failed
            /\ err = <<"no network interface found">>
            /\ i = Len(calls)
            /\ ~Issued("AssociateAddress")

\* No interface found after the target was detached.
C12_Witness ==
    /\ DetachSucceeded /\ Failed
    /\ NoInterfaceFound(Len(calls))

\* None of the calls that follow the identification was issued.
NothingAfterIdentification ==
    /\ ~Issued("DisassociateAddress")
    /\ ~Issued("DescribeNetworkInterfaces")
    /\ ~Issued("AssociateAddress")

TokenFailed == \E i \in CallsOf("GetToken") : ~calls[i].ok

MetadataFailed(path) == \E i \in MetadataCalls(path) : ~calls[i].ok

\* C13. Metadata failure: a failed GetToken, public-ipv4 fetch or
\* instance-id fetch makes Bind return an error that names the failed
\* sub-step, with no result and before any DisassociateAddress,
\* DescribeNetworkInterfaces or AssociateAddress; a failed instance-id fetch
\* does so even when the host public address equals the target.
C13_MetadataFailure ==
    /\ TokenFailed =>
           Failed /\ err = <<"get metadata token">> /\ NothingAfterIdentification
    /\ MetadataFailed("meta-data/public-ipv4") =>
           Failed /\ err = <<"get public-ipv4">> /\ NothingAfterIdentification
    /\ MetadataFailed("meta-data/instance-id") =>
           Failed /\ err = <<"get instance-id">> /\ NothingAfterIdentification

\* The instance-id fetch failed on a host that already holds the target.
C13_Witness ==
    /\ MetadataFailed("meta-data/instance-id")
    /\ HostPublicAddressIs(targetIP)
    /\ Failed /\ err = <<"get instance-id">>

\* Call i passed the AllocationId of the looked-up address and the
\* NetworkInterfaceId returned by the locate of this invocation.
AttachArgumentsFromLookups(i) ==
    \E l \in CallsOf("DescribeAddresses"), f \in CallsOf("DescribeNetworkInterfaces") :
        /\ l < i /\ calls[l].ok /\ calls[l].ret # <<>>
        /\ f < i /\ calls[f].ok /\ calls[f].ret # <<>>
        /\ calls[i].arg = <<calls[l].ret[1].AllocationId,
                            calls[f].ret[1].NetworkInterfaceId>>

\* Call f was filtered by the address the public-ipv4 fetch returned, which
\* is not the target.
LocatedByHostAddress(f) ==
    /\ \E p \in MetadataCalls("meta-data/public-ipv4") :
           p < f /\ calls[p].ok /\ calls[f].arg = calls[p].ret
    /\ calls[f].arg # <<targetIP>>

\* C14. Attach arguments: every AssociateAddress passes the AllocationId of
\* the looked-up address and the NetworkInterfaceId returned by this
\* invocation's DescribeNetworkInterfaces, and every
\* DescribeNetworkInterfaces is filtered by the host public address from the
\* public-ipv4 fetch, never by the target.
C14_AttachArguments ==
    /\ \A i \in CallsOf("AssociateAddress") : AttachArgumentsFromLookups(i)
    /\ \A f \in CallsOf("DescribeNetworkInterfaces") : LocatedByHostAddress(f)

\* An AssociateAddress that moves the target from another interface to the
\* located one.
C14_Witness ==
    /\ \E i \in CallsOf("AssociateAddress") :
           calls[i].ok /\ AttachArgumentsFromLookups(i)
    /\ address.NetworkInterfaceId # <<>>
    /\ address.NetworkInterfaceId # networkInterfaceID

\* Call i passed the AssociationId of the looked-up address.
DetachArgumentFromLookup(i) ==
    \E l \in CallsOf("DescribeAddresses") :
        /\ l < i /\ calls[l].ok /\ calls[l].ret # <<>>
        /\ calls[l].ret[1].AssociationId # <<>>
        /\ calls[i].arg = <<calls[l].ret[1].AssociationId>>

\* C15. Detach argument: every DisassociateAddress passes exactly the
\* AssociationId of the address this invocation looked up.
C15_DetachArgument ==
    \A i \in CallsOf("DisassociateAddress") : DetachArgumentFromLookup(i)

\* A DisassociateAddress on a host whose own public address carries another
\* association than the one passed.
C15_Witness ==
    \E i \in CallsOf("DisassociateAddress") :
        /\ DetachArgumentFromLookup(i)
        /\ before[instancePublicIP].AssociationId # <<>>
        /\ calls[i].arg # <<before[instancePublicIP].AssociationId>>

AttachSucceeded == \E i \in CallsOf("AssociateAddress") : calls[i].ok

\* C16. Result shape: the AssociationID of a result is non-empty only if
\* AlreadyAssociated is FALSE and an AssociateAddress succeeded; a result
\* with AlreadyAssociated = TRUE has an empty AssociationID; a result with
\* AlreadyAssociated = FALSE exists only after a successful AssociateAddress.
C16_ResultShape ==
    result # <<>> =>
        /\ result[1].AssociationID # 0 =>
               ~result[1].AlreadyAssociated /\ AttachSucceeded
        /\ result[1].AlreadyAssociated => result[1].AssociationID = 0
        /\ ~result[1].AlreadyAssociated => AttachSucceeded

\* A short-circuit result for an address that carries an association: the
\* result does not repeat it.
C16_Witness ==
    /\ result # <<>> /\ result[1].AlreadyAssociated
    /\ calls[1].ret[1].AssociationId # <<>>
    /\ result[1].AssociationID = 0

\* The place of a call in the order of Bind's steps.
StepOf(c) ==
    CASE c.op = "DescribeAddresses" -> 1
      [] c.op = "GetToken" -> 2
      [] c.op = "GetMetadata" /\ c.arg[2] = "meta-data/public-ipv4" -> 3
      [] c.op = "GetMetadata" /\ c.arg[2] = "meta-data/instance-id" -> 4
      [] c.op = "DisassociateAddress" -> 5
      [] c.op = "DescribeNetworkInterfaces" -> 6
      [] c.op = "AssociateAddress" -> 7

\* The calls of the invocation follow the order of the steps: no step is
\* repeated and none follows a later one.
NoStepRepeated ==
    \A i, j \in 1..Len(calls) : i < j => StepOf(calls[i]) < StepOf(calls[j])

\* The invocation is over.
Ended == pc \in {"returned", "panic"}

\* C17. Termination: an invocation never repeats or goes back to a step,
\* and it ends in exactly one of two outcomes: a result with no error, or an
\* error with no result.
C17_TerminatesInOneOutcome ==
    /\ NoStepRepeated
    /\ Ended => (Succeeded \/ Failed)

\* C17, the liveness part: provided every remote call eventually returns,
\* every invocation eventually ends.
C17_EventuallyEnds == Running ~> Ended

\* Call l is a lookup, or a locate, that returned more than one element.
ReturnedSeveral(l) ==
    /\ calls[l].op \in {"DescribeAddresses", "DescribeNetworkInterfaces"}
    /\ calls[l].ok /\ Len(calls[l].ret) > 1

\* Everything after lookup l works on the first address it returned.
FirstAddressUsed(l) ==
    /\ address = calls[l].ret[1]
    /\ \A i \in CallsOf("DisassociateAddress") :
           calls[i].arg = <<calls[l].ret[1].AssociationId>>
    /\ \A i \in CallsOf("AssociateAddress") :
           calls[i].arg[1] = calls[l].ret[1].AllocationId

\* Everything after locate f works on the first interface it returned.
FirstInterfaceUsed(f) ==
    /\ networkInterfaceID = calls[f].ret[1].NetworkInterfaceId
    /\ \A i \in CallsOf("AssociateAddress") :
           calls[i].arg[2] = calls[f].ret[1].NetworkInterfaceId

\* C18. Tie-break: when DescribeAddresses or DescribeNetworkInterfaces
\* returns more than one element, Bind does not return an error for it;
\* it goes on, and the address, the DisassociateAddress argument and the
\* AssociateAddress arguments are those of the first element.
C18_FirstElementUsed ==
    \A l \in 1..Len(calls) :
        ReturnedSeveral(l) =>
            /\ l = Len(calls) => pc # "returned"
            /\ calls[l].op = "DescribeAddresses" => FirstAddressUsed(l)
            /\ calls[l].op = "DescribeNetworkInterfaces" => FirstInterfaceUsed(l)

\* A successful invocation whose lookup and locate both returned two
\* different elements, and which detached and attached by the first ones.
C18_Witness ==
    /\ Succeeded /\ DetachSucceeded /\ AttachSucceeded
    /\ \E l \in CallsOf("DescribeAddresses"), f \in CallsOf("DescribeNetworkInterfaces") :
           /\ ReturnedSeveral(l) /\ FirstAddressUsed(l)
           /\ calls[l].ret[1].AssociationId # calls[l].ret[2].AssociationId
           /\ calls[l].ret[1].AllocationId # calls[l].ret[2].AllocationId
           /\ ReturnedSeveral(f) /\ FirstInterfaceUsed(f)

\* The GetToken and GetMetadata calls of the invocation.
IMDSCalls == CallsOf("GetToken") \cup CallsOf("GetMetadata")

\* The exchange of call i failed in transport or ended in a status other
\* than success.
TransportOrStatusFailure(i) ==
    \/ calls[i].exchange.built /\ ~calls[i].exchange.transport
    \/ calls[i].exchange.transport /\ calls[i].exchange.status # StatusOK

\* Call i returned an error and the empty string.
ReturnedErrorOnly(i) == ~calls[i].ok /\ calls[i].value = ""

\* Call i returned a value only from a success response, and then its body.
ValueOnlyFromSuccess(i) ==
    calls[i].ok =>
        /\ calls[i].exchange.transport
        /\ calls[i].exchange.status = StatusOK
        /\ calls[i].value = calls[i].exchange.body

\* C19 as stated: GetToken and GetMetadata each issue exactly one request;
\* they return an error and an empty value on a transport failure or a
\* non-success status, and the response body only on a success response.
C19_ExactlyOneRequest ==
    \A i \in IMDSCalls :
        /\ Len(calls[i].http) = 1
        /\ TransportOrStatusFailure(i) => ReturnedErrorOnly(i)
        /\ ValueOnlyFromSuccess(i)

\* C19, amended: each call issues at most one request, and none only when
\* the request could not be built, in which case it also returns an error
\* and an empty value; the rest as stated.
C19_AtMostOneRequest ==
    \A i \in IMDSCalls :
        /\ Len(calls[i].http) <= 1
        /\ Len(calls[i].http) = 0 => (~calls[i].exchange.built /\ ReturnedErrorOnly(i))
        /\ TransportOrStatusFailure(i) => ReturnedErrorOnly(i)
        /\ ValueOnlyFromSuccess(i)

\* A metadata fetch answered "not found" with a body: one request was sent,
\* an error and no value came back, and Bind returned the error.
C19_Witness ==
    /\ Failed
    /\ \E i \in CallsOf("GetMetadata") :
           /\ Len(calls[i].http) = 1
           /\ calls[i].exchange.status = 404
           /\ calls[i].exchange.body # ""
           /\ ReturnedErrorOnly(i)

\* ParseConfigFromOS has returned.
Parsed == cfg # <<>> \/ cfgErr # <<>>

\* The arguments after the program name.
Arguments == IF osArgs = <<>> THEN <<>> ELSE Tail(osArgs)

\* C20. Argument count: for every argument list whose length is not exactly
\* one, with no argument or with two or more, ParseConfigFromOS returns a
\* configuration error and no configuration.
C20_ExactlyOneArgument ==
    (Parsed /\ Len(Arguments) # 1) => (cfgErr # <<>> /\ cfg = <<>>)

\* s is written as four decimal fields separated by dots.
DottedDecimal(s) ==
    /\ \A i \in 1..Len(s) : s[i] \in Digit \cup {"."}
    /\ ParseIPv4Fields(s) # <<>>

\* C21. Only well-formed IPv4 reaches the core: whenever ParseConfigFromOS
\* returns a Config, in direct mode or in POD_NAME mode, its TargetIP is a
\* well-formed dotted-decimal IPv4 address; every other final string,
\* any IPv6 form included, is rejected.
C21_OnlyIPv4 ==
    cfg # <<>> => DottedDecimal(cfg[1].TargetIP)

\* The process was started with the single argument POD_NAME.
SentinelMode == Len(Arguments) = 1 /\ Arguments[1] = PodNameArg

\* The process was started with a single argument other than POD_NAME.
DirectMode == Len(Arguments) = 1 /\ Arguments[1] # PodNameArg

\* The name of the pod with every hyphen replaced by an underscore, worked
\* out character by character.
DerivedName ==
    [i \in 1..Len(environ[PodNameArg]) |->
        IF environ[PodNameArg][i] = "-" THEN "_" ELSE environ[PodNameArg][i]]

\* The environment with every variable unset.
NoEnvironment == [k \in DOMAIN environ |-> <<>>]

\* C22. Sentinel indirection: with the argument POD_NAME, a returned Config
\* holds the value of the variable named like POD_NAME's value with hyphens
\* replaced by underscores, and an empty POD_NAME or an empty derived
\* variable is an error; with any other argument, a returned Config holds
\* the argument itself and the outcome is the one of an empty environment.
C22_SentinelIndirection ==
    Parsed =>
        /\ SentinelMode =>
               /\ cfg # <<>> => cfg[1].TargetIP = Getenv(environ, DerivedName)
               /\ environ[PodNameArg] = <<>> => cfgErr # <<>>
               /\ Getenv(environ, DerivedName) = <<>> => cfgErr # <<>>
        /\ DirectMode =>
               /\ cfg # <<>> => cfg[1].TargetIP = Arguments[1]
               /\ cfg = ParseConfig(Arguments, NoEnvironment).cfg
               /\ cfgErr = ParseConfig(Arguments, NoEnvironment).err

\* POD_NAME mode resolved through the derived name, in an environment that
\* also sets a variable named exactly like the pod, to another address.
C22_Witness ==
    /\ SentinelMode /\ cfg # <<>>
    /\ DerivedName # environ[PodNameArg]
    /\ cfg[1].TargetIP = environ[DerivedName]
    /\ environ[environ[PodNameArg]] # <<>>
    /\ environ[environ[PodNameArg]] # cfg[1].TargetIP

\* Bind is invoked only with a Config and a loaded AWS configuration.
BindOnlyWhenConfigured ==
    binds > 0 =>
        /\ cfg # <<>> /\ cfgErr = <<>>
        /\ awsCfg # <<>> /\ awsErr = <<>>

\* A process that ended after an error of input resolution, of
\* configuration loading or of Bind has a non-zero exit status.
ErrorsExitNonZero ==
    (mainPc \in {"exited", "crashed"} /\ (cfgErr # <<>> \/ awsErr # <<>> \/ err # <<>>))
        => exitCode \notin {<<>>, <<0>>}

\* C23. Fatal at the edge only: main invokes Bind only after input
\* resolution and configuration loading succeeded; an error of input
\* resolution, of configuration loading or of Bind makes the process exit
\* with a non-zero status; and Bind never ends the process itself, it
\* always returns to main.
C23_FatalAtEdgeOnly ==
    /\ BindOnlyWhenConfigured
    /\ ErrorsExitNonZero
    /\ pc # "panic" /\ mainPc # "crashed"

\* Call i is the step that follows call i - 1 in Bind: the next one, or the
\* locate right after the instance-id fetch when nothing is detached.
FollowsPrevious(i) ==
    IF i = 1 THEN StepOf(calls[i]) = 1
    ELSE \/ StepOf(calls[i]) = StepOf(calls[i - 1]) + 1
         \/ StepOf(calls[i - 1]) = 4 /\ StepOf(calls[i]) = 6

\* Call i, a DisassociateAddress or an AssociateAddress, comes after the
\* lookup, the token and both metadata fetches succeeded and the host public
\* address turned out not to be the target.
MutationAfterIdentification(i) ==
    /\ i > 4
    /\ \A j \in 1..4 : StepOf(calls[j]) = j /\ calls[j].ok
    /\ calls[1].ret # <<>>
    /\ calls[3].ret # <<targetIP>>

\* C24. Strict call sequence: the calls of an invocation are a prefix of
\* DescribeAddresses, GetToken, GetMetadata(public-ipv4),
\* GetMetadata(instance-id), [DisassociateAddress],
\* DescribeNetworkInterfaces, AssociateAddress; each is issued at most once
\* and only after the previous one returned successfully; and no
\* DisassociateAddress or AssociateAddress is issued before the
\* identification succeeded and the target was compared with the host
\* public address.
C24_StrictSequence ==
    /\ \A i \in 1..Len(calls) :
           /\ FollowsPrevious(i)
           /\ i < Len(calls) => calls[i].ok
    /\ NoStepRepeated
    /\ \A i \in CallsOf("DisassociateAddress") \cup CallsOf("AssociateAddress") :
           MutationAfterIdentification(i)

\* The whole sequence, all seven calls, ending in success.
C24_Witness ==
    /\ Succeeded
    /\ Len(calls) = 7
    /\ \A i \in 1..7 : StepOf(calls[i]) = i /\ calls[i].ok

\* The lookup of this invocation returned an address.
LookupPassed ==
    /\ Len(calls) >= 1
    /\ calls[1].op = "DescribeAddresses" /\ calls[1].ok /\ calls[1].ret # <<>>

\* GetMetadata call i sends the token the GetToken call of this invocation
\* returned, which is the token the service issued for this invocation.
SendsOwnToken(i) ==
    /\ \E j \in CallsOf("GetToken") :
           j < i /\ calls[j].ok /\ calls[i].arg[1] = calls[j].value
    /\ calls[i].arg[1] = TokenOf(binds)

\* The locals of Bind hold nothing but what the calls of this invocation
\* returned.
LocalsFromOwnCalls ==
    /\ address # ZeroAddress => LookupPassed /\ address = calls[1].ret[1]
    /\ mdToken # "" =>
           \E j \in CallsOf("GetToken") : calls[j].ok /\ mdToken = calls[j].value
    /\ instancePublicIP # "" => HostPublicAddressIs(instancePublicIP)
    /\ instanceID # "" =>
           \E j \in MetadataCalls("meta-data/instance-id") :
               calls[j].ok /\ calls[j].ret = <<instanceID>>

\* C25. Fresh per invocation, nothing cached: an invocation that passed the
\* lookup calls GetToken exactly once and sends the token it returned with
\* both GetMetadata calls; every invocation, the second on the same Binder
\* included, starts with its own DescribeAddresses, gets its own token, and
\* holds no address, token or host identity other than what its own calls
\* returned; and the fields of the Binder are never changed.
C25_FreshPerInvocation ==
    /\ (LookupPassed /\ pc # "GetToken") => Cardinality(CallsOf("GetToken")) = 1
    /\ \A i \in CallsOf("GetMetadata") : SendsOwnToken(i)
    /\ Len(calls) >= 1 =>
           calls[1].op = "DescribeAddresses" /\ calls[1].arg = <<targetIP>>
    /\ LocalsFromOwnCalls
    /\ binder = NewBinder

\* A second invocation on the same Binder has made both metadata calls, each
\* with the token issued for the second invocation, and holds the address its
\* own lookup returned.
C25_Witness ==
    /\ binds = 2
    /\ Cardinality(CallsOf("GetMetadata")) = 2
    /\ \A i \in CallsOf("GetMetadata") : calls[i].ok /\ calls[i].arg[1] = TokenOf(2)
    /\ address # ZeroAddress

DirectoryOps ==
    {"DescribeAddresses", "DisassociateAddress", "DescribeNetworkInterfaces",
     "AssociateAddress"}

\* This step issues a directory call.
DirectoryCallIssued ==
    /\ Len(calls') = Len(calls) + 1
    /\ calls'[Len(calls')].op \in DirectoryOps

\* The directory call of this step fails, changes nothing, and Bind returns
\* an error right after it.
CallAborts ==
    /\ ~calls'[Len(calls')].ok
    /\ dir' = dir
    /\ pc' = "returned" /\ err' # <<>> /\ result' = <<>>

\* This step ends the invocation with the short-circuit result, without a
\* directory call.
ShortCircuits ==
    /\ pc' = "returned" /\ err' = <<>> /\ result' # <<>>
    /\ result'[1].AlreadyAssociated
    /\ ~DirectoryCallIssued

\* C26 as stated. Cancellation propagation: once the ctx of a running
\* invocation is cancelled, a directory call Bind still issues fails and is
\* the last one, no step of Bind changes the directory, and the invocation
\* ends with an error.
C26_CancelledBindFails ==
    [][(ctxDone /\ Running /\ pc' # pc) =>
           /\ DirectoryCallIssued => CallAborts
           /\ dir' = dir
           /\ pc' \in {"returned", "panic"} => (pc' = "returned" /\ err' # <<>>)]_vars

\* C26, amended. Once the ctx of a running invocation is cancelled, a
\* directory call Bind still issues fails, is the last one, and makes Bind
\* return an error; no step of Bind changes the directory; and an invocation
\* that ends without an error has ended through the short-circuit, which
\* needs no directory call (the metadata calls are not bound to the ctx).
C26_CancelledCallsAbort ==
    [][(ctxDone /\ Running /\ pc' # pc) =>
           /\ DirectoryCallIssued => CallAborts
           /\ dir' = dir
           /\ pc' \in {"returned", "panic"} =>
                  (pc' = "returned" /\ (err' # <<>> \/ ShortCircuits))]_vars

\* The ctx was cancelled after a successful DisassociateAddress, and the
\* next directory call failed and ended the invocation.
C26_Witness ==
    /\ ctxDone
    /\ Failed
    /\ DetachSucceeded
    /\ calls[Len(calls)].op \in {"DescribeNetworkInterfaces", "AssociateAddress"}
    /\ ~calls[Len(calls)].ok

\* Every remote call of this invocation succeeded, and the two lookups
\* returned an element.
EveryCallSucceeded ==
    \A i \in 1..Len(calls) :
        /\ calls[i].ok
        /\ calls[i].op \in {"DescribeAddresses", "DescribeNetworkInterfaces"} =>
               calls[i].ret # <<>>

\* No DisassociateAddress, exactly one AssociateAddress, a result with
\* AlreadyAssociated = FALSE, and the target on the interface Bind found for
\* the host.
Recovered ==
    /\ ~Issued("DisassociateAddress")
    /\ Cardinality(CallsOf("AssociateAddress")) = 1
    /\ Succeeded
    /\ ~result[1].AlreadyAssociated
    /\ networkInterfaceID # <<>>
    /\ dir[targetIP].NetworkInterfaceId = networkInterfaceID

\* An invocation that follows one which left its target detached has ended,
\* all its calls succeeded, the metadata service did not report the target
\* as the host's address, and no other process touched the directory.
RerunEnded ==
    /\ recovering
    /\ Ended
    /\ EveryCallSucceeded
    /\ ~HostPublicAddressIs(targetIP)
    /\ ~mutated

\* C27. Re-run recovers the degraded state: after an invocation that failed
\* having left the target unattached, the next invocation for the same
\* target, with every remote call succeeding, issues no DisassociateAddress
\* and exactly one AssociateAddress and returns a result with
\* AlreadyAssociated = FALSE, the target being attached to the host's
\* interface.
C27_RerunRecovers == RerunEnded => Recovered

\* The same for a target whose lookup carries an AllocationId.
RerunRecoversAllocated ==
    (RerunEnded /\ address.AllocationId # <<>>) => Recovered

\* A re-run of that kind that did recover.
RerunRecoveredReached == RerunEnded /\ Recovered

\* This step is the return of a result with AlreadyAssociated = FALSE.
ReturnsNewAssociation ==
    /\ pc # "returned" /\ pc' = "returned"
    /\ result' # <<>>
    /\ ~result'[1].AlreadyAssociated

\* After this step the directory holds the target on the interface Bind
\* attached it to, under the association id of the result.
BoundAsReported ==
    /\ networkInterfaceID # <<>>
    /\ dir'[targetIP].NetworkInterfaceId = networkInterfaceID
    /\ dir'[targetIP].AssociationId = <<result'[1].AssociationID>>

\* C28 as stated. Success means bound at return: when Bind returns a result
\* with AlreadyAssociated = FALSE, the directory holds the target on the
\* host's interface under the association id of the result, whatever another
\* process did to the directory between the AssociateAddress and the return.
C28_BoundAtReturn ==
    [][ReturnsNewAssociation => BoundAsReported]_vars

\* C28, amended: the same, provided no other process changed the directory
\* during the invocation and the reply to AssociateAddress carried an
\* association id.
C28_BoundAtReturnUndisturbed ==
    [][(/\ ReturnsNewAssociation
        /\ ~mutated'
        /\ calls'[Len(calls')].ret # <<>>) => BoundAsReported]_vars

\* Bind has returned a new association, undisturbed, and the directory holds
\* the target under the id of the result.
C28_Witness ==
    /\ Succeeded
    /\ ~result[1].AlreadyAssociated
    /\ ~mutated
    /\ result[1].AssociationID # 0
    /\ dir[targetIP].NetworkInterfaceId = networkInterfaceID
    /\ dir[targetIP].AssociationId = <<result[1].AssociationID>>

\* Bind has returned a result with AlreadyAssociated = TRUE.
ReportedAlreadyBound == Succeeded /\ result[1].AlreadyAssociated

\* The address the lookup of this invocation returned carries an association
\* and is on the host's interface.
LookedUpOnHost ==
    /\ address.AssociationId # <<>>
    /\ address.NetworkInterfaceId = <<HostENI>>

\* C29 as stated. alreadyBound agrees with the directory: whenever Bind
\* returns AlreadyAssociated = TRUE, the address DescribeAddresses returned
\* in that invocation carries an AssociationId and is associated with the
\* host's interface.
C29_AlreadyBoundAgrees == ReportedAlreadyBound => LookedUpOnHost

\* C29, amended. Bind returns AlreadyAssociated = TRUE exactly when the
\* lookup returned an address and the metadata service reported the target
\* as the host's public address; the association of the looked-up address
\* plays no part in it.
C29_AlreadyBoundFromMetadata ==
    /\ ReportedAlreadyBound => (LookupPassed /\ Identified)
    /\ Succeeded => (result[1].AlreadyAssociated <=> HostPublicAddressIs(targetIP))

\* AlreadyAssociated = TRUE for a target whose lookup shows no association.
C29_Witness ==
    /\ ReportedAlreadyBound
    /\ HostPublicAddressIs(targetIP)
    /\ address.AssociationId = <<>>

\* Past its lookup, the invocation faces an association of the target that
\* is not the one it looked up: with association ids unique, one created
\* after the lookup.
NewerAttachment ==
    /\ Running /\ pc # "DescribeAddresses"
    /\ dir[targetIP].AssociationId # <<>>
    /\ dir[targetIP].AssociationId # address.AssociationId

\* This step is a DisassociateAddress with an association id that no address
\* holds any more.
StaleDetachIssued ==
    /\ pc = "DisassociateAddress" /\ pc' # pc
    /\ HoldersOf(dir, address.AssociationId) = {}

\* The call fails, the directory stays as it is, and Bind returns the error,
\* so no AssociateAddress follows.
DetachRefused ==
    /\ ~calls'[Len(calls')].ok
    /\ dir' = dir
    /\ pc' = "returned" /\ err' # <<>> /\ result' = <<>>

\* C30 as stated. No removal of newer attachments: no step of Bind changes
\* an association of the target that was created after the lookup of the
\* invocation, and a DisassociateAddress with an association id that is no
\* longer current fails and the invocation ends with that error, without
\* AssociateAddress.
C30_NoRemovalOfNewer ==
    [][/\ (NewerAttachment /\ pc' # pc) => dir'[targetIP] = dir[targetIP]
       /\ StaleDetachIssued => DetachRefused]_vars

\* C30, amended. The DisassociateAddress of Bind never changes an
\* association of the target created after the lookup: issued with an
\* association id that is no longer current, it fails and the invocation ends
\* with that error, without AssociateAddress. (The AssociateAddress of Bind
\* is not covered: it moves the target whatever association it carries.)
C30_NoDetachOfNewer ==
    [][/\ (NewerAttachment /\ pc = "DisassociateAddress" /\ pc' # pc) =>
              dir'[targetIP] = dir[targetIP]
       /\ StaleDetachIssued => DetachRefused]_vars

\* Another process attached the target after the lookup; the
\* DisassociateAddress of Bind, with the old id, failed and ended the
\* invocation, and the newer association is still there.
C30_Witness ==
    /\ Failed
    /\ calls[Len(calls)].op = "DisassociateAddress" /\ ~calls[Len(calls)].ok
    /\ calls[Len(calls)].arg # <<dir[targetIP].AssociationId>>
    /\ dir[targetIP].AssociationId # <<>>
    /\ stale
    /\ ~Issued("AssociateAddress")

====
